---- MODULE Spec2Model ----
(***************************************************************************)
(* Client-side state machines of the pleno-anonymize website:              *)
(*   - the OAuth session context (react-oauth2-code-pkce AuthProvider),    *)
(*     read through useAuth();                                             *)
(*   - the router (BrowserRouter history stack and the five routes);       *)
(*   - CallbackPage (the Callback Resolver) and its redirect effect;       *)
(*   - DocsPage + Sidebar (the Docs Navigator) and its deferred scroll.    *)
(*                                                                         *)
(* React scheduling assumed throughout: a state update, the render it      *)
(* causes and the commit are one step; an effect scheduled by a render     *)
(* caused by a click is flushed in that same step; an effect scheduled by  *)
(* a render with another cause (a provider update, a mount after a         *)
(* navigation) is a step of its own, and React flushes it before it        *)
(* handles any further event or render.                                    *)
(***************************************************************************)
EXTENDS Naturals, Sequences, FiniteSets

\* ---------------------------------------------------------------- bounds
\* Longest browser history stack explored.
MaxHist == 2
\* Most setTimeout callbacks pending at once.
MaxTimers == 2

\* ------------------------------------------------------------ JS values
\* null / undefined
Null == "null"
\* Boolean(v), as `!!v` and `if (v)` compute it for a string-or-null value.
Truthy(v) == v # Null /\ v # ""

\* Values the provider may hold: token is '' while absent, error is null
\* while absent.
Tokens == {"", "abc", "xyz"}
Errors == {Null, "denied"}

Last(s) == s[Len(s)]

\* ------------------------------------------------------------- authConfig
\* window.location.hostname values explored.
Hostnames == {"localhost", "plenoai.com", "127.0.0.1"}
isLocalhost(hostname) == hostname = "localhost"
\* A variant that takes the loopback address for a local host too.
redirectUriForLoopback(hostname) ==
    IF hostname \in {"localhost", "127.0.0.1"} THEN "http://localhost:5173/callback"
    ELSE "https://plenoai.com/callback"

redirectUri(hostname) ==
    IF isLocalhost(hostname) THEN "http://localhost:5173/callback"
    ELSE "https://plenoai.com/callback"
autoLogin == FALSE
\* The part of the authConfig literal the application's routes depend on,
\* as the module evaluates it when the document loads.
authConfigFor(hostname) ==
    [redirectUri |-> redirectUri(hostname), autoLogin |-> autoLogin]

\* ---------------------------------------------------------------- routes
Routes == {"/", "/docs", "/privacy", "/terms", "/callback"}
\* <Link to=...> elements each page renders.
Links(page) ==
    CASE page = "/"         -> {"/", "/docs"}
      [] page = "/docs"     -> {"/"}
      [] page = "/privacy"  -> {"/"}
      [] page = "/terms"    -> {"/", "/privacy"}
      [] OTHER              -> {}

\* ------------------------------------------------------------ docSections
\* A variant with a section that renderContent has no case for.
docSectionsWithChangelog ==
    << [id |-> "overview",        subsections |-> <<>>],
       [id |-> "getting-started", subsections |-> <<>>],
       [id |-> "api",             subsections |-> <<"analyze", "redact", "openai-proxy">>],
       [id |-> "architecture",    subsections |-> <<"presidio", "spacy-llm", "tech-stack">>],
       [id |-> "privacy",         subsections |-> <<>>],
       [id |-> "changelog",       subsections |-> <<>>] >>

docSections ==
    << [id |-> "overview",        subsections |-> <<>>],
       [id |-> "getting-started", subsections |-> <<>>],
       [id |-> "api",             subsections |-> <<"analyze", "redact", "openai-proxy">>],
       [id |-> "architecture",    subsections |-> <<"presidio", "spacy-llm", "tech-stack">>],
       [id |-> "privacy",         subsections |-> <<>>] >>
\* `section.subsections` is undefined (falsy) where the literal has none.
HasSubsections(section) == section.subsections # <<>>
Range(s) == {s[i] : i \in DOMAIN s}
TopLevelIds == {docSections[i].id : i \in DOMAIN docSections}
SubsOf(section) == Range(section.subsections)
SidebarSubIds == UNION {SubsOf(docSections[i]) : i \in DOMAIN docSections}

subsectionIds ==
    {"analyze", "redact", "openai-proxy", "presidio", "spacy-llm", "tech-stack"}

\* A variant that misses one subsection.
getMainSectionKeyWithoutTechStack(activeSectionId) ==
    IF activeSectionId \in {"analyze", "redact", "openai-proxy"} THEN "api"
    ELSE IF activeSectionId \in {"presidio", "spacy-llm"} THEN "architecture"
    ELSE activeSectionId

\* getMainSectionKey(): the key of the animated content wrapper.
getMainSectionKey(activeSectionId) ==
    IF activeSectionId \in {"analyze", "redact", "openai-proxy"} THEN "api"
    ELSE IF activeSectionId \in {"presidio", "spacy-llm", "tech-stack"} THEN "architecture"
    ELSE activeSectionId

\* renderContent(): the pane shown, and whether the switch fell to `default`.
renderContent(activeSectionId) ==
    CASE activeSectionId = "overview" ->
            [pane |-> "OverviewSection", byDefault |-> FALSE]
      [] activeSectionId = "getting-started" ->
            [pane |-> "GettingStartedSection", byDefault |-> FALSE]
      [] activeSectionId \in {"api", "analyze", "redact", "openai-proxy"} ->
            [pane |-> "ApiSection", byDefault |-> FALSE]
      [] activeSectionId \in {"architecture", "presidio", "spacy-llm", "tech-stack"} ->
            [pane |-> "ArchitectureSection", byDefault |-> FALSE]
      [] activeSectionId = "privacy" ->
            [pane |-> "PrivacySection", byDefault |-> FALSE]
      [] OTHER ->
            [pane |-> "OverviewSection", byDefault |-> TRUE]

\* Element ids each pane puts in the document.
AnchorsOf(pane) ==
    CASE pane = "OverviewSection"       -> {"overview"}
      [] pane = "GettingStartedSection" -> {"getting-started"}
      [] pane = "ApiSection"            -> {"api", "analyze", "redact", "openai-proxy"}
      [] pane = "ArchitectureSection"   ->
            {"architecture", "presidio", "spacy-llm", "tech-stack"}
      [] pane = "PrivacySection"        -> {"privacy"}
      [] OTHER                          -> {}

\* ----------------------------------------------------------------- state
VARIABLES
    \* AuthProvider's context value
    token, loginInProgress, error,
    \* browser history stack; its last entry is the current location
    history,
    \* CallbackPage: the dependency arrays of its last two renders (newest
    \* last), whether its effect is scheduled, and the navigate() calls the
    \* current (or most recent) instance has made
    cbDeps, cbEffectPending, navCalls,
    \* DocsPage / Sidebar state (Null / {} / FALSE while not mounted)
    activeSection, expandedSections, isMobileMenuOpen,
    \* pending setTimeout callbacks (the id each closed over), oldest first,
    \* and what the most recent callback did: Null while none has run,
    \* NoElement when getElementById found nothing, else the id of the
    \* element it scrolled into view
    timers, lastScroll,
    \* the sidebar handlers of the current run of identical clicks (at most
    \* the last two), each with expandedSections as it was before the click
    opLog,
    \* window.location.hostname of the document, and authConfig as the
    \* module evaluated it for that document
    hostname, authConfig

configVars == <<hostname, authConfig>>
authVars == <<token, loginInProgress, error>>
cbVars   == <<cbDeps, cbEffectPending, navCalls>>
docsVars == <<activeSection, expandedSections, isMobileMenuOpen, opLog>>
vars == <<token, loginInProgress, error, history, cbDeps, cbEffectPending,
          navCalls, activeSection, expandedSections, isMobileMenuOpen,
          timers, lastScroll, opLog, hostname, authConfig>>

location == Last(history)

\* ------------------------------------------------------------------- App
\* A variant of the tree with the callback route beside the wrapper.
InsideAuthWrapperButCallback(route) == route \in Routes \ {"/callback"}

\* The element of the route is rendered as a descendant of <AuthWrapper>.
InsideAuthWrapper(route) == route \in Routes

\* ---------------------------------------------------------------- useAuth
\* What useContext(AuthContext) yields where no context value is supplied.
NoContext == [absent |-> TRUE]
MustBeUsedWithin == [thrown |-> "useAuth must be used within AuthProvider"]

\* The value AuthProvider supplies to the subtree App renders inside it.
ContextOf(t, l, e) == [token |-> t, loginInProgress |-> l, error |-> e]
Context == ContextOf(token, loginInProgress, error)

\* What useContext(AuthContext) yields in the page rendered for a route.
ContextFor(route) ==
    IF InsideAuthWrapper(route) THEN Context ELSE NoContext

\* A variant that derives isAuthenticated from the absence of an error.
useAuthByError(context) ==
    IF context = NoContext THEN MustBeUsedWithin
    ELSE [token           |-> context.token,
          isAuthenticated |-> ~Truthy(context.error),
          isLoading       |-> context.loginInProgress,
          error           |-> context.error]

useAuth(context) ==
    IF context = NoContext THEN MustBeUsedWithin
    ELSE [token           |-> context.token,
          isAuthenticated |-> Truthy(context.token),
          isLoading       |-> context.loginInProgress,
          error           |-> context.error]

\* ----------------------------------------------------------- CallbackPage
\* The effect's dependency array [isAuthenticated, error, isLoading]
\* (navigate changes only with the location, which is /callback for as
\* long as the page is mounted).
DepsOf(auth) ==
    [isAuthenticated |-> auth.isAuthenticated, error |-> auth.error,
     isLoading |-> auth.isLoading]

\* Variants of the effect body, each with one slip.
\* ... without the isLoading test:
callbackEffectIgnoringLoading(auth) ==
    IF auth.isAuthenticated THEN << [to |-> "/docs", replace |-> TRUE] >>
    ELSE IF Truthy(auth.error) THEN << [to |-> "/", replace |-> TRUE] >>
    ELSE << >>
\* ... pushing the docs route instead of replacing the callback entry:
callbackEffectPushingDocs(auth) ==
    IF ~auth.isLoading
    THEN IF auth.isAuthenticated THEN << [to |-> "/docs", replace |-> FALSE] >>
         ELSE IF Truthy(auth.error) THEN << [to |-> "/", replace |-> TRUE] >>
         ELSE << >>
    ELSE << >>
\* ... without the error branch:
callbackEffectWithoutErrorBranch(auth) ==
    IF ~auth.isLoading
    THEN IF auth.isAuthenticated THEN << [to |-> "/docs", replace |-> TRUE] >>
         ELSE << >>
    ELSE << >>
\* ... sending every settled, unauthenticated session home:
callbackEffectHomeUnlessAuthenticated(auth) ==
    IF ~auth.isLoading
    THEN IF auth.isAuthenticated THEN << [to |-> "/docs", replace |-> TRUE] >>
         ELSE << [to |-> "/", replace |-> TRUE] >>
    ELSE << >>

\* ... with the error test before the authentication test:
callbackEffectErrorFirst(auth) ==
    IF ~auth.isLoading
    THEN IF Truthy(auth.error) THEN << [to |-> "/", replace |-> TRUE] >>
         ELSE IF auth.isAuthenticated THEN << [to |-> "/docs", replace |-> TRUE] >>
         ELSE << >>
    ELSE << >>

\* The effect body: the navigate() calls it makes for the values it closed over.
callbackEffect(auth) ==
    IF ~auth.isLoading
    THEN IF auth.isAuthenticated THEN << [to |-> "/docs", replace |-> TRUE] >>
         ELSE IF Truthy(auth.error) THEN << [to |-> "/", replace |-> TRUE] >>
         ELSE << >>
    ELSE << >>

\* A variant of the view that prefers the spinner while loading.
callbackViewSpinnerWhileLoading(auth) ==
    IF auth.isLoading THEN "spinner"
    ELSE IF Truthy(auth.error) THEN "error" ELSE "spinner"

\* What the page renders: the error message when error is truthy, else the
\* spinner.
callbackView(auth) ==
    IF Truthy(auth.error) THEN "error" ELSE "spinner"

\* A variant that ignores {replace: true}.
NavigateHistoryPushing(h, to, replace) == Append(h, to)

\* navigate(to, {replace}) / a history push, on the history stack.
NavigateHistory(h, to, replace) ==
    IF replace THEN [h EXCEPT ![Len(h)] = to] ELSE Append(h, to)

\* A route change as the callback route sees it: CallbackPage mounts (first
\* render, effect scheduled) when the route becomes /callback, and is gone
\* (with any effect it had scheduled) when the route is another one.
CallbackArrive(to, context) ==
    IF to = "/callback"
    THEN /\ cbDeps' = << DepsOf(useAuth(context)) >>
         /\ cbEffectPending' = TRUE
         /\ navCalls' = << >>
    ELSE /\ cbEffectPending' = FALSE
         /\ UNCHANGED <<cbDeps, navCalls>>

\* --------------------------------------------------------------- DocsPage
\* useState initial values.
InitialActiveSection == "overview"
InitialExpandedSections == {"api", "architecture"}
InitialMobileMenuOpen == FALSE

\* A variant that only ever expands.
toggleSectionExpandOnly(expanded, id) == expanded \cup {id}

\* toggleSection(id) on the expanded set.
toggleSection(expanded, id) ==
    IF id \in expanded THEN expanded \ {id} ELSE expanded \cup {id}

\* The [activeSection] effect: schedules the deferred scroll for a subsection.
scrollEffect(pending, active) ==
    IF active \in subsectionIds THEN Append(pending, active) ELSE pending

\* A variant whose effect has a cleanup that clears the timeout it set.
AfterRenderWithCleanup(pending, before, after) ==
    IF before # after THEN scrollEffect(<< >>, after) ELSE pending

\* The effect runs after the first render and after a render that changed
\* activeSection.
AfterRender(pending, before, after) ==
    IF before # after THEN scrollEffect(pending, after) ELSE pending

\* One entry of opLog.
Logged(op, id) ==
    LET e == [op |-> op, id |-> id, expanded |-> expandedSections]
    IN  IF opLog # << >> /\ Last(opLog).op = op /\ Last(opLog).id = id
        THEN << Last(opLog), e >>
        ELSE << e >>

\* A variant that keeps the navigator's state in a store outliving the page.
DocsArrivePersisting(to, pending) ==
    /\ opLog' = << >>
    /\ timers' = pending
    /\ IF to = "/docs" /\ activeSection = Null
       THEN /\ activeSection' = InitialActiveSection
            /\ expandedSections' = InitialExpandedSections
            /\ isMobileMenuOpen' = InitialMobileMenuOpen
       ELSE UNCHANGED <<activeSection, expandedSections, isMobileMenuOpen>>

\* A route change as the docs route sees it: DocsPage and Sidebar mount with
\* their initial state, or are gone.
DocsArrive(to, pending) ==
    IF to = "/docs"
    THEN /\ activeSection' = InitialActiveSection
         /\ expandedSections' = InitialExpandedSections
         /\ isMobileMenuOpen' = InitialMobileMenuOpen
         /\ opLog' = << >>
         /\ timers' = AfterRender(pending, Null, InitialActiveSection)
    ELSE /\ activeSection' = Null
         /\ expandedSections' = {}
         /\ isMobileMenuOpen' = FALSE
         /\ opLog' = << >>
         /\ timers' = pending

\* ------------------------------------------------------------------ Init
Init ==
    /\ token \in Tokens
    /\ loginInProgress \in BOOLEAN
    /\ error \in Errors
    /\ history \in {<<r>> : r \in Routes}
    /\ lastScroll = Null
    /\ hostname \in Hostnames
    /\ authConfig = authConfigFor(hostname)
    /\ IF location = "/callback"
       THEN /\ cbDeps = << DepsOf(useAuth(Context)) >>
            /\ cbEffectPending = TRUE
       ELSE /\ cbDeps = << >>
            /\ cbEffectPending = FALSE
    /\ navCalls = << >>
    /\ opLog = << >>
    /\ timers = << >>
    /\ IF location = "/docs"
       THEN /\ activeSection = InitialActiveSection
            /\ expandedSections = InitialExpandedSections
            /\ isMobileMenuOpen = InitialMobileMenuOpen
       ELSE /\ activeSection = Null
            /\ expandedSections = {}
            /\ isMobileMenuOpen = FALSE

\* ------------------------------------------------------- provider, router
\* A variant in which a resolver that was rendered once keeps re-rendering
\* after the route has changed.
ProviderUpdateKeepingResolver(t, l, e) ==
    /\ ~cbEffectPending
    /\ ContextOf(t, l, e) # Context
    /\ token' = t /\ loginInProgress' = l /\ error' = e
    /\ IF cbDeps # << >>
       THEN LET deps == DepsOf(useAuth(ContextOf(t, l, e)))
            IN  /\ cbDeps' = << Last(cbDeps), deps >>
                /\ cbEffectPending' = (deps # Last(cbDeps))
                /\ UNCHANGED navCalls
       ELSE UNCHANGED cbVars
    /\ UNCHANGED <<history, docsVars, timers, lastScroll, configVars>>

\* A variant in which the resolver's effect has an empty dependency array:
\* it runs on mount only.
ProviderUpdateWithoutEffect(t, l, e) ==
    /\ ~cbEffectPending
    /\ ContextOf(t, l, e) # Context
    /\ token' = t /\ loginInProgress' = l /\ error' = e
    /\ IF location = "/callback"
       THEN LET deps == DepsOf(useAuth(ContextOf(t, l, e)))
            IN  /\ cbDeps' = << Last(cbDeps), deps >>
                /\ cbEffectPending' = FALSE
                /\ UNCHANGED navCalls
       ELSE UNCHANGED cbVars
    /\ UNCHANGED <<history, docsVars, timers, lastScroll, configVars>>

\* The OAuth provider replaces its context value; every consumer re-renders.
ProviderUpdate(t, l, e) ==
    /\ ~cbEffectPending
    /\ ContextOf(t, l, e) # Context
    /\ token' = t /\ loginInProgress' = l /\ error' = e
    /\ IF location = "/callback"
       THEN LET deps == DepsOf(useAuth(ContextOf(t, l, e)))
            IN  /\ cbDeps' = << Last(cbDeps), deps >>
                /\ cbEffectPending' = (deps # Last(cbDeps))
                /\ UNCHANGED navCalls
       ELSE UNCHANGED cbVars
    /\ UNCHANGED <<history, docsVars, timers, lastScroll, configVars>>

\* A variant of the effect that resets the provider's error when it runs.
CallbackEffectClearingError ==
    /\ cbEffectPending
    /\ LET calls == callbackEffect(Last(cbDeps))
           h == IF calls = << >> THEN history
                ELSE NavigateHistory(history, calls[1].to, calls[1].replace)
       IN  /\ navCalls' = navCalls \o calls
           /\ history' = h
           /\ cbEffectPending' = FALSE
           /\ UNCHANGED cbDeps
           /\ IF Last(h) = location
              THEN UNCHANGED <<docsVars, timers>>
              ELSE DocsArrive(Last(h), timers)
    /\ error' = Null
    /\ UNCHANGED <<token, loginInProgress, lastScroll, configVars>>

\* CallbackPage's effect runs with the values its render closed over.
CallbackEffect ==
    /\ cbEffectPending
    /\ LET calls == callbackEffect(Last(cbDeps))
           h == IF calls = << >> THEN history
                ELSE NavigateHistory(history, calls[1].to, calls[1].replace)
       IN  /\ navCalls' = navCalls \o calls
           /\ history' = h
           /\ cbEffectPending' = FALSE
           /\ UNCHANGED cbDeps
           /\ IF Last(h) = location
              THEN UNCHANGED <<docsVars, timers>>
              ELSE DocsArrive(Last(h), timers)
    /\ UNCHANGED <<authVars, lastScroll, configVars>>

\* The user loads a URL of the site in the tab (typed, or the redirect back
\* from the authorization server): a new document, a fresh React tree, the
\* provider restarted from its storage.
OpenUrl(r, t, l, e) ==
    /\ ~cbEffectPending
    /\ Len(history) < MaxHist
    /\ history' = Append(history, r)
    /\ token' = t /\ loginInProgress' = l /\ error' = e
    /\ CallbackArrive(r, ContextOf(t, l, e))
    /\ DocsArrive(r, << >>)
    /\ lastScroll' = Null
    /\ hostname' = hostname
    /\ authConfig' = authConfigFor(hostname')

\* A click on a <Link> of the current page (a push; a link to the current
\* location changes nothing and is left out).
ClickLink(to) ==
    /\ ~cbEffectPending
    /\ to \in Links(location) \ {location}
    /\ Len(history) < MaxHist
    /\ history' = Append(history, to)
    /\ CallbackArrive(to, Context)
    /\ DocsArrive(to, timers)
    /\ UNCHANGED <<authVars, lastScroll, configVars>>

\* The browser's back button: the entry below becomes current and its page
\* mounts afresh.
GoBack ==
    /\ ~cbEffectPending
    /\ Len(history) > 1
    /\ history' = SubSeq(history, 1, Len(history) - 1)
    /\ CallbackArrive(Last(history'), Context)
    /\ DocsArrive(Last(history'), timers)
    /\ UNCHANGED <<authVars, lastScroll, configVars>>

\* ---------------------------------------------------------------- Sidebar
\* The sidebar is operable on a wide viewport at any time and on a narrow
\* one while the menu is open; the menu button exists on a narrow viewport.
\* The viewport may change between any two clicks, so no action is guarded
\* by it.

\* A variant that selects a section only for a signed-in visitor.
onSectionChangeWhenSignedIn(id) ==
    IF Truthy(token)
    THEN /\ activeSection' = id
         /\ isMobileMenuOpen' = FALSE
         /\ timers' = AfterRender(timers, activeSection, id)
         /\ Len(timers') <= MaxTimers
    ELSE UNCHANGED <<activeSection, isMobileMenuOpen, timers>>

\* A variant that leaves the mobile menu as it is.
onSectionChangeKeepingMenu(id) ==
    /\ activeSection' = id
    /\ UNCHANGED isMobileMenuOpen
    /\ timers' = AfterRender(timers, activeSection, id)
    /\ Len(timers') <= MaxTimers

\* onSectionChange(id), the callback DocsPage hands to Sidebar, with the
\* render it causes and that render's [activeSection] effect.
onSectionChange(id) ==
    /\ activeSection' = id
    /\ isMobileMenuOpen' = FALSE
    /\ timers' = AfterRender(timers, activeSection, id)
    /\ Len(timers') <= MaxTimers

\* A variant whose click on a section with subsections only toggles it.
ClickSectionToggleOnly(i) ==
    /\ location = "/docs"
    /\ LET section == docSections[i]
       IN  IF HasSubsections(section)
           THEN /\ expandedSections' = toggleSection(expandedSections, section.id)
                /\ opLog' = Logged("toggleExpand", section.id)
                /\ UNCHANGED <<activeSection, isMobileMenuOpen, timers>>
           ELSE /\ UNCHANGED expandedSections
                /\ onSectionChange(section.id)
                /\ opLog' = Logged("selectSection", section.id)
    /\ UNCHANGED <<authVars, history, cbVars, lastScroll, configVars>>

\* Click on the button of top-level section docSections[i].
ClickSection(i) ==
    /\ location = "/docs"
    /\ LET section == docSections[i]
       IN  /\ expandedSections' =
                 IF HasSubsections(section)
                 THEN toggleSection(expandedSections, section.id)
                 ELSE expandedSections
           /\ onSectionChange(section.id)
           /\ opLog' = Logged("selectSection", section.id)
    /\ UNCHANGED <<authVars, history, cbVars, lastScroll, configVars>>

\* A variant that lists the subsections of a collapsed section too.
SubsectionRenderedAlways(sub) ==
    \E i \in DOMAIN docSections :
        /\ HasSubsections(docSections[i])
        /\ sub \in SubsOf(docSections[i])

\* The button of subsection sub is in the sidebar: the list of a section's
\* subsections is rendered only while the section is expanded.
SubsectionRendered(sub) ==
    \E i \in DOMAIN docSections :
        /\ HasSubsections(docSections[i])
        /\ docSections[i].id \in expandedSections
        /\ sub \in SubsOf(docSections[i])

\* A variant of the subsection click that also toggles the parent section.
ClickSubsectionTogglingParent(sub) ==
    /\ location = "/docs"
    /\ \E i \in DOMAIN docSections :
          /\ HasSubsections(docSections[i])
          /\ docSections[i].id \in expandedSections
          /\ sub \in SubsOf(docSections[i])
          /\ expandedSections' = toggleSection(expandedSections, docSections[i].id)
    /\ onSectionChange(sub)
    /\ opLog' = Logged("selectSection", sub)
    /\ UNCHANGED <<authVars, history, cbVars, lastScroll, configVars>>

\* Click on the button of subsection sub, rendered while its section is
\* expanded.
ClickSubsection(sub) ==
    /\ location = "/docs"
    /\ SubsectionRendered(sub)
    /\ onSectionChange(sub)
    /\ opLog' = Logged("selectSection", sub)
    /\ UNCHANGED <<expandedSections, authVars, history, cbVars, lastScroll, configVars>>

\* The header's menu button.
OpenMenu ==
    /\ location = "/docs"
    /\ isMobileMenuOpen' = TRUE
    /\ opLog' = Logged("openMenu", Null)
    /\ UNCHANGED <<activeSection, expandedSections, timers, authVars, history,
                   cbVars, lastScroll, configVars>>

\* onMobileClose, from the sidebar's X button.
CloseMenu ==
    /\ location = "/docs"
    /\ isMobileMenuOpen' = FALSE
    /\ opLog' = Logged("closeMenu", Null)
    /\ UNCHANGED <<activeSection, expandedSections, timers, authVars, history,
                   cbVars, lastScroll, configVars>>

\* onMobileClose, from the overlay behind the open menu.
TapOverlay ==
    /\ location = "/docs"
    /\ isMobileMenuOpen
    /\ isMobileMenuOpen' = FALSE
    /\ opLog' = Logged("tapOverlay", Null)
    /\ UNCHANGED <<activeSection, expandedSections, timers, authVars, history,
                   cbVars, lastScroll, configVars>>

\* A variant without the `if (element)` test.
ElementExistsUnchecked(id) == TRUE

\* getElementById returned null.
NoElement == "no element"

\* document.getElementById(id) finds an element.
ElementExists(id) ==
    /\ location = "/docs"
    /\ id \in AnchorsOf(renderContent(activeSection).pane)

\* The oldest pending setTimeout callback fires.
TimerFire ==
    /\ timers # << >>
    /\ timers' = Tail(timers)
    /\ lastScroll' = IF ElementExists(Head(timers)) THEN Head(timers) ELSE NoElement
    /\ UNCHANGED <<authVars, history, cbVars, docsVars, configVars>>

\* ------------------------------------------------------------------ Next
\* The session, the router and the Callback Resolver.
NextAuth ==
    \/ \E t \in Tokens, l \in BOOLEAN, e \in Errors : ProviderUpdate(t, l, e)
    \/ CallbackEffect
    \/ \E r \in Routes, t \in Tokens, l \in BOOLEAN, e \in Errors : OpenUrl(r, t, l, e)
    \/ \E to \in Routes : ClickLink(to)
    \/ GoBack

\* The Docs Navigator, and the navigation that mounts and unmounts it.
NextDocs ==
    \/ \E i \in DOMAIN docSections : ClickSection(i)
    \/ \E sub \in SidebarSubIds : ClickSubsection(sub)
    \/ OpenMenu
    \/ CloseMenu
    \/ TapOverlay
    \/ TimerFire
    \/ \E to \in Routes : ClickLink(to)
    \/ GoBack

Next == NextAuth \/ NextDocs

\* The whole application (the product of the two parts below; the
\* properties are checked on the parts).
Spec == Init /\ [][Next]_vars

\* The session, the router and the Callback Resolver, from any first route
\* and any session state; the docs page, when shown, is left untouched.
SpecAuth == Init /\ [][NextAuth]_vars

\* A visitor of the production site without a session who starts on the
\* docs page and uses it.
InitDocs ==
    /\ Init
    /\ location = "/docs"
    /\ token = "" /\ ~loginInProgress /\ error = Null
    /\ hostname = "plenoai.com"
SpecDocs == InitDocs /\ [][NextDocs]_vars

\* The same, with the event loop running every timeout that is due.
SpecDocsFair == SpecDocs /\ WF_vars(TimerFire)

\* The session and the resolver, with React flushing the resolver's
\* scheduled effect.
SpecAuthFair == SpecAuth /\ WF_vars(CallbackEffect)

\* A visit to the production site that begins with the redirect back from
\* the authorization server: the resolver on /callback, then the docs page it leads to, while
\* the provider moves the session through the states of a login (exchange
\* in progress, signed in, failed, signed out).
LoginFlow ==
    { ContextOf("", TRUE, Null), ContextOf("abc", FALSE, Null),
      ContextOf("", FALSE, "denied"), ContextOf("", FALSE, Null) }
InitVisit ==
    /\ Init
    /\ location = "/callback"
    /\ Context \in LoginFlow
    /\ hostname = "plenoai.com"
NextVisit ==
    \/ \E c \in LoginFlow : ProviderUpdate(c.token, c.loginInProgress, c.error)
    \/ CallbackEffect
    \/ \E i \in DOMAIN docSections : ClickSection(i)
    \/ \E sub \in SidebarSubIds : ClickSubsection(sub)
    \/ OpenMenu
    \/ CloseMenu
    \/ TapOverlay
    \/ TimerFire
SpecVisit == InitVisit /\ [][NextVisit]_vars

\* ======================================================= Callback Resolver
ToDocs == [to |-> "/docs", replace |-> TRUE]
ToHome == [to |-> "/", replace |-> TRUE]
\* navigate(to, {replace: true}) acted on the history stack: the current
\* entry became `to`, the entries below it are as they were.
Replaced(to) ==
    /\ Len(history') = Len(history)
    /\ Last(history') = to
    /\ SubSeq(history', 1, Len(history) - 1) = SubSeq(history, 1, Len(history) - 1)
\* The resolver's render before the current one saw isLoading = true.
WasLoading == Len(cbDeps) = 2 /\ cbDeps[1].isLoading

\* C1: in no step taken while the resolver is mounted and the session has
\* isLoading = true does the resolver call navigate, whatever token and
\* error are and however often the session was updated: the list of its
\* calls stays empty and the callback entry is not replaced.
C1_NoNavigationWhileLoading ==
    [][ (location = "/callback" /\ loginInProgress)
            => /\ navCalls' = << >>
               /\ (Len(history') = Len(history) => history' = history) ]_vars

\* Reached: the effect has run for a second render that was still loading,
\* with a token and an error both present, and nothing was navigated.
C1_Witness ==
    /\ location = "/callback" /\ ~cbEffectPending
    /\ loginInProgress /\ WasLoading
    /\ Truthy(token) /\ Truthy(error)
    /\ navCalls = << >>

\* C2: when the effect runs for a render that saw isLoading = false and a
\* token after a render that saw isLoading = true, it calls navigate once,
\* to /docs with replace, and the callback entry of the history stack is
\* replaced by /docs (the stack keeps its length); no resolver instance
\* ever makes more than one call.
C2_DocsOnceWithReplace ==
    /\ [](Len(navCalls) <= 1)
    /\ [][ (cbEffectPending /\ WasLoading /\ ~loginInProgress /\ token # "")
               => /\ navCalls' = << ToDocs >>
                  /\ Replaced("/docs") ]_vars

\* Reached: the one call was made after a loading render, and the entry
\* below the replaced one is still there.
C2_Witness ==
    /\ navCalls = << ToDocs >> /\ history = << "/", "/docs" >>
    /\ WasLoading /\ ~cbDeps[2].isLoading /\ cbDeps[2].isAuthenticated
    /\ token # "" /\ ~loginInProgress

\* C3: when the effect runs for a render that saw isLoading = false, an
\* error and no token after a render that saw isLoading = true, it calls
\* navigate once, to / with replace, and the callback entry of the history
\* stack is replaced by / (the stack keeps its length).
C3_HomeOnceWithReplace ==
    /\ [](Len(navCalls) <= 1)
    /\ [][ (cbEffectPending /\ WasLoading /\ ~loginInProgress
                /\ token = "" /\ error # Null)
               => /\ navCalls' = << ToHome >>
                  /\ Replaced("/") ]_vars

C3_Witness ==
    /\ navCalls = << ToHome >> /\ history = << "/docs", "/" >>
    /\ WasLoading /\ ~cbDeps[2].isLoading /\ ~cbDeps[2].isAuthenticated
    /\ cbDeps[2].error = "denied"
    /\ token = "" /\ error = "denied" /\ ~loginInProgress

\* C4: in no step taken while the resolver is mounted and the session is
\* {isLoading: false, no token, no error} does the resolver navigate: its
\* list of calls stays empty, and the callback entry stays the current one
\* unless the user pushes or pops an entry; in particular the effect's own
\* step leaves the resolver rendered.
Ambiguous == ~loginInProgress /\ token = "" /\ error = Null
C4_AmbiguousStalls ==
    [][ (location = "/callback" /\ Ambiguous)
            => /\ navCalls' = << >>
               /\ (Len(history') = Len(history) => history' = history)
               /\ (cbEffectPending => location' = "/callback" /\ ~cbEffectPending') ]_vars

\* Reached: /callback opened directly with no login in progress; the mount
\* effect has run and the resolver is still there.
C4_Witness ==
    /\ location = "/callback" /\ Ambiguous
    /\ Len(cbDeps) = 1 /\ ~cbEffectPending
    /\ navCalls = << >>

\* ================================================================ useAuth
\* C8: the state useAuth() returns inside the provider has isAuthenticated
\* true exactly when the provider's token is a non-empty string, isLoading
\* equal to loginInProgress, and token and error as the provider holds
\* them; the values CallbackPage last rendered with are those.
C8_AuthStateMirrorsProvider ==
    LET auth == useAuth(Context)
    IN  /\ auth.isAuthenticated = (token \notin {"", Null})
        /\ auth.isLoading = loginInProgress
        /\ auth.token = token
        /\ auth.error = error
        /\ location = "/callback" =>
              Last(cbDeps) = [isAuthenticated |-> (token \notin {"", Null}),
                              error |-> error, isLoading |-> loginInProgress]

\* Reached: a render of CallbackPage with a token and an error both present
\* while loading, after a render without a token.
C8_Witness ==
    /\ location = "/callback" /\ Len(cbDeps) = 2
    /\ token = "abc" /\ error = "denied" /\ loginInProgress
    /\ ~cbDeps[1].isAuthenticated /\ cbDeps[2].isAuthenticated

\* ========================================================= Docs Navigator
IsSelect(e, id) == e.op = "selectSection" /\ e.id = id
DocsMounted == location = "/docs"
WithSubsections == {"api", "architecture"}
WithoutSubsections == {"overview", "getting-started", "privacy"}
SubsectionUniverse ==
    {"analyze", "redact", "openai-proxy", "presidio", "spacy-llm", "tech-stack"}

\* C5: right after a click on the sidebar button of any of the six
\* subsections, activeSection is that subsection and expandedSections is
\* what it was before the click.
C5_SubsectionSelectKeepsExpanded ==
    \A id \in SubsectionUniverse :
        (opLog # << >> /\ IsSelect(Last(opLog), id))
            => /\ activeSection = id
               /\ expandedSections = Last(opLog).expanded

\* Reached: a subsection selected while the other section is collapsed.
C5_Witness ==
    /\ opLog # << >> /\ IsSelect(Last(opLog), "tech-stack")
    /\ activeSection = "tech-stack"
    /\ expandedSections = {"architecture"}

\* C6: right after a click on api or architecture, activeSection is that id
\* and its membership in expandedSections is flipped (every other
\* membership kept); after two such clicks in succession expandedSections
\* is what it was before the first; right after a click on overview,
\* getting-started or privacy, activeSection is that id and
\* expandedSections is what it was before.
C6_TopLevelSelectToggles ==
    /\ \A id \in WithSubsections :
          (opLog # << >> /\ IsSelect(Last(opLog), id))
              => /\ activeSection = id
                 /\ (id \in expandedSections) # (id \in Last(opLog).expanded)
                 /\ expandedSections \ {id} = Last(opLog).expanded \ {id}
                 /\ Len(opLog) = 2 => expandedSections = opLog[1].expanded
    /\ \A id \in WithoutSubsections :
          (opLog # << >> /\ IsSelect(Last(opLog), id))
              => /\ activeSection = id
                 /\ expandedSections = Last(opLog).expanded

\* Reached: api clicked twice in succession, starting collapsed.
C6_Witness ==
    /\ Len(opLog) = 2 /\ IsSelect(opLog[2], "api")
    /\ opLog[1].expanded = {"architecture"}
    /\ opLog[2].expanded = {"api", "architecture"}
    /\ expandedSections = {"architecture"}
    /\ activeSection = "api"

\* C9: whenever the docs page is mounted and no sidebar control has been
\* used since it mounted, activeSection = overview, expandedSections =
\* {api, architecture} and isMobileMenuOpen = false: at the first mount and
\* at every later one, whatever was selected before the page was left.
C9_MountsWithInitialState ==
    (DocsMounted /\ opLog = << >>)
        => /\ activeSection = "overview"
           /\ expandedSections = {"api", "architecture"}
           /\ isMobileMenuOpen = FALSE

\* Reached: the page mounted again while a scroll scheduled by a subsection
\* selection of its previous instance is still pending.
C9_Witness ==
    /\ DocsMounted /\ opLog = << >>
    /\ timers # << >>
    /\ activeSection = "overview"
    /\ expandedSections = {"api", "architecture"}

\* C10: while the docs page is mounted, activeSection is one of the five
\* top-level ids or one of the six subsection ids, and renderContent does
\* not fall to its default branch.
C10_ActiveSectionInUniverse ==
    DocsMounted
        => /\ activeSection \in
                {"overview", "getting-started", "api", "architecture", "privacy"}
                    \cup SubsectionUniverse
           /\ ~renderContent(activeSection).byDefault

\* Reached: a subsection is active and its parent's pane is shown.
C10_Witness ==
    /\ DocsMounted /\ activeSection = "spacy-llm"
    /\ renderContent(activeSection) =
          [pane |-> "ArchitectureSection", byDefault |-> FALSE]

\* The sections of docSections that list id among their subsections.
ParentsOf(id) == {sec \in Range(docSections) : id \in SubsOf(sec)}
FivePanes ==
    {"OverviewSection", "GettingStartedSection", "ApiSection",
     "ArchitectureSection", "PrivacySection"}

\* C11: renderContent resolves each of the eleven ids to one of the five
\* panes by a case of its own and every pane is resolved to; whenever a
\* subsection is active it has exactly one parent in docSections, is in
\* subsectionIds, getMainSectionKey gives that parent's id, and
\* renderContent shows the pane it shows for the parent: ApiSection for
\* analyze, redact and openai-proxy, ArchitectureSection for presidio,
\* spacy-llm and tech-stack; a top-level id is not in subsectionIds and is
\* its own key.
C11_ContentResolution ==
    /\ {renderContent(id).pane : id \in WithoutSubsections \cup WithSubsections
                                          \cup SubsectionUniverse} = FivePanes
    /\ DocsMounted =>
          /\ renderContent(activeSection).pane \in FivePanes
          /\ ~renderContent(activeSection).byDefault
          /\ IF activeSection \in SubsectionUniverse
             THEN /\ Cardinality(ParentsOf(activeSection)) = 1
                  /\ activeSection \in subsectionIds
                  /\ \A sec \in ParentsOf(activeSection) :
                        /\ getMainSectionKey(activeSection) = sec.id
                        /\ renderContent(activeSection) = renderContent(sec.id)
                  /\ renderContent(activeSection).pane =
                        IF activeSection \in {"analyze", "redact", "openai-proxy"}
                        THEN "ApiSection" ELSE "ArchitectureSection"
             ELSE /\ ParentsOf(activeSection) = {}
                  /\ activeSection \notin subsectionIds
                  /\ getMainSectionKey(activeSection) = activeSection

\* Reached: tech-stack is active and resolved through its parent.
C11_Witness ==
    /\ DocsMounted /\ activeSection = "tech-stack"
    /\ getMainSectionKey(activeSection) = "architecture"
    /\ renderContent(activeSection).pane = "ArchitectureSection"

\* C12: while the docs page stays mounted, isMobileMenuOpen turns true only
\* in a click on the menu button and turns false only in a click on the
\* close button, on the overlay or on a section or subsection button; a
\* timer callback leaves it as it is; right after a click on the menu
\* button it is true, and right after a click on the close button, the
\* overlay or any section or subsection button it is false.
ClosingOps == {"closeMenu", "tapOverlay", "selectSection"}
C12_MobileMenu ==
    /\ [](opLog # << >> =>
              isMobileMenuOpen = (Last(opLog).op = "openMenu"))
    /\ [](opLog # << >> => Last(opLog).op \in ClosingOps \cup {"openMenu"})
    /\ [][ (DocsMounted /\ DocsMounted' /\ isMobileMenuOpen' # isMobileMenuOpen)
               => /\ opLog' # << >>
                  /\ Len(timers') >= Len(timers)
                  /\ lastScroll' = lastScroll
                  /\ IF isMobileMenuOpen'
                     THEN Last(opLog').op = "openMenu"
                     ELSE Last(opLog').op \in ClosingOps ]_vars

\* Reached: the open menu was closed by a tap on the overlay.
C12_Witness ==
    /\ DocsMounted /\ opLog # << >>
    /\ Last(opLog).op = "tapOverlay"
    /\ ~isMobileMenuOpen

\* In this step the membership of id in expandedSections flips and no
\* other membership changes.
Flips(id) ==
    /\ (id \in expandedSections') # (id \in expandedSections)
    /\ expandedSections' \ {id} = expandedSections \ {id}

\* C13 as stated: whenever the docs page is mounted, the sidebar can, for
\* api and for architecture, take a step that flips the section's
\* membership in expandedSections and leaves activeSection and
\* isMobileMenuOpen as they are.
C13_SeparateToggleOffered ==
    DocsMounted =>
        \A id \in WithSubsections :
            ENABLED (/\ NextDocs
                     /\ Flips(id)
                     /\ activeSection' = activeSection
                     /\ isMobileMenuOpen' = isMobileMenuOpen)

\* C13 amended: the sidebar has no toggle apart from selection: while the
\* docs page stays mounted, every step that changes expandedSections is a
\* click on api or architecture, which flips that section's membership,
\* makes it the active section and leaves the mobile menu closed.
C13_ToggleOnlyBySelecting ==
    [][ (DocsMounted /\ DocsMounted' /\ expandedSections' # expandedSections)
            => \E id \in WithSubsections :
                  /\ Flips(id)
                  /\ activeSection' = id
                  /\ ~isMobileMenuOpen'
                  /\ IsSelect(Last(opLog'), id) ]_vars

\* Reached: architecture was collapsed by a click that also selected it.
C13_Witness ==
    /\ DocsMounted /\ opLog # << >>
    /\ IsSelect(Last(opLog), "architecture")
    /\ Last(opLog).expanded = {"api", "architecture"}
    /\ expandedSections = {"api"}
    /\ activeSection = "architecture"

\* C14: every click on a subsection button that the log shows (a first
\* click, or the second of two in succession) leaves its parent's pane
\* displayed and adds one pending scroll callback for that subsection.
C14_EverySubsectionClickSchedulesScroll ==
    [][ (opLog' # opLog /\ opLog' # << >>
            /\ Last(opLog').op = "selectSection"
            /\ Last(opLog').id \in SubsectionUniverse)
            => /\ timers' = Append(timers, Last(opLog').id)
               /\ \A sec \in ParentsOf(Last(opLog').id) :
                     renderContent(activeSection') = renderContent(sec.id) ]_vars

\* The anchor of id is not in the document: the docs page is not mounted,
\* or the pane on display does not hold it.
AnchorAbsent(id) ==
    \/ location # "/docs"
    \/ /\ activeSection \in {"overview", "getting-started", "privacy"}
       /\ id # activeSection
    \/ /\ activeSection \in {"api", "analyze", "redact", "openai-proxy"}
       /\ id \notin {"api", "analyze", "redact", "openai-proxy"}
    \/ /\ activeSection \in {"architecture", "presidio", "spacy-llm", "tech-stack"}
       /\ id \notin {"architecture", "presidio", "spacy-llm", "tech-stack"}

\* C15: a step in which a pending scroll callback fires leaves
\* activeSection, expandedSections, isMobileMenuOpen and the history stack
\* as they are, whether or not its target exists and however often the
\* same target was tried; when the target's anchor is absent the callback
\* ends without scrolling anything into view.
C15_AbsentTargetIsNoOp ==
    [][ Len(timers') < Len(timers)
            => /\ UNCHANGED <<activeSection, expandedSections, isMobileMenuOpen,
                             history>>
               /\ timers' = Tail(timers)
               /\ AnchorAbsent(Head(timers)) => lastScroll' = NoElement
               /\ ~AnchorAbsent(Head(timers)) => lastScroll' = Head(timers) ]_vars

\* Reached: a callback found no anchor because the pane had been switched
\* before it fired; the callback of the new subsection is still pending.
C15_Witness ==
    /\ DocsMounted /\ lastScroll = NoElement
    /\ activeSection \in SubsectionUniverse
    /\ timers = << activeSection >>

C17_RedirectIsTerminal ==
    /\ [](navCalls # << >>
            => /\ location # "/callback"
               /\ ~cbEffectPending
               /\ Len(navCalls) = 1)
    /\ [][ navCalls # << >>
            => \/ navCalls' = navCalls
               \/ navCalls' = << >> /\ location' = "/callback" ]_vars

\* Reached: after the redirect to /docs the provider dropped the token and
\* reported an error, which a mounted resolver would answer by going home.
C17_Witness ==
    /\ navCalls = << ToDocs >> /\ location = "/docs"
    /\ token = "" /\ error = "denied" /\ ~loginInProgress

\* C18: the rendered resolver shows the error message exactly when the
\* provider's error is present, loading or not, and the spinner otherwise;
\* the effect's navigation follows isLoading, the token and the error as
\* the code tests them, not the view: with a token it goes to /docs under
\* either view, and under the error message it goes nowhere while loading.
C18_ViewFollowsErrorOnly ==
    /\ [](location = "/callback"
            => callbackView(Last(cbDeps))
                   = IF error # Null THEN "error" ELSE "spinner")
    /\ [][ (location = "/callback" /\ cbEffectPending)
            => navCalls' = IF loginInProgress THEN << >>
                           ELSE IF token # "" THEN << ToDocs >>
                           ELSE IF error # Null THEN << ToHome >>
                           ELSE << >> ]_vars

\* Reached: the error message is on display while the login is still in
\* progress; the effect has run and has not navigated.
C18_Witness ==
    /\ location = "/callback" /\ ~cbEffectPending
    /\ error = "denied" /\ loginInProgress
    /\ callbackView(Last(cbDeps)) = "error"
    /\ navCalls = << >>

\* C19 as stated: a resolver whose error message is on display has not
\* redirected, and one that showed the error message in its previous
\* render and is now in the ambiguous state still shows it.
C19_ErrorShownInAmbiguousState ==
    /\ (location = "/callback" /\ callbackView(Last(cbDeps)) = "error")
            => navCalls = << >>
    /\ (location = "/callback" /\ Ambiguous
            /\ Len(cbDeps) = 2 /\ cbDeps[1].error # Null)
            => callbackView(Last(cbDeps)) = "error"

\* C19, amended: once the effect of a render has run, the error message is
\* still on display only if isLoading is true; the effect of a render with
\* the error message and isLoading false leaves the callback route (for
\* /docs with a token, for home without); and in the ambiguous state the
\* view is the spinner.
C19_ErrorShownOnlyUntilSettled ==
    /\ []((location = "/callback" /\ ~cbEffectPending
              /\ callbackView(Last(cbDeps)) = "error") => loginInProgress)
    /\ []((location = "/callback" /\ Ambiguous)
              => callbackView(Last(cbDeps)) = "spinner")
    /\ [][ (location = "/callback" /\ cbEffectPending
              /\ callbackView(Last(cbDeps)) = "error" /\ ~loginInProgress)
            => /\ location' = (IF token # "" THEN "/docs" ELSE "/")
               /\ navCalls' # << >> ]_vars

\* Reached: the resolver showed the error message while loading, then the
\* provider settled with neither token nor error; the effect has run and
\* the resolver is still there.
C19_Witness ==
    /\ location = "/callback" /\ Ambiguous /\ ~cbEffectPending
    /\ Len(cbDeps) = 2
    /\ cbDeps[1].error = "denied" /\ cbDeps[1].isLoading
    /\ callbackView(Last(cbDeps)) = "spinner"
    /\ navCalls = << >>

\* ================================================ Docs Navigator, continued
\* C20 as stated: while the docs page is mounted the button of every
\* subsection the sidebar lists is in it, whether or not its parent is expanded, and
\* right after a click on api or architecture that section is expanded.
C20_SelectionIndependentOfExpansion ==
    /\ DocsMounted => \A sub \in SidebarSubIds : SubsectionRendered(sub)
    /\ \A id \in WithSubsections :
          (opLog # << >> /\ IsSelect(Last(opLog), id))
              => id \in expandedSections

\* C20 amended: selection from the sidebar depends on expansion. A
\* subsection is clicked only while its parent is expanded, and while a
\* subsection is the active section its parent is expanded; a click on api
\* or architecture leaves the section expanded exactly when it was
\* collapsed before, and collapses it when it was expanded.
C20_SelectionTiedToExpansion ==
    /\ \A id \in SubsectionUniverse :
          /\ (opLog # << >> /\ IsSelect(Last(opLog), id))
                => \A sec \in ParentsOf(id) : sec.id \in Last(opLog).expanded
          /\ (DocsMounted /\ activeSection = id)
                => \A sec \in ParentsOf(id) : sec.id \in expandedSections
    /\ \A id \in WithSubsections :
          (opLog # << >> /\ IsSelect(Last(opLog), id))
              => (id \in expandedSections <=> id \notin Last(opLog).expanded)

\* Reached: a click on the expanded api section selected and collapsed it;
\* the buttons of its subsections are gone from the sidebar.
C20_Witness ==
    /\ DocsMounted /\ opLog # << >>
    /\ IsSelect(Last(opLog), "api")
    /\ "api" \in Last(opLog).expanded
    /\ "api" \notin expandedSections
    /\ \A sub \in {"analyze", "redact", "openai-proxy"} : ~SubsectionRendered(sub)

\* ============================================================ session state
\* C21: a step in which the resolver's effect runs, the history stack or
\* the list of the resolver's navigate calls changes, or anything of the
\* Docs Navigator changes (its state, the pending scroll callbacks, the
\* last scroll) leaves token, loginInProgress and error as they are; they
\* change only in steps of the provider, which touch none of these.
C21_SessionHasOneWriter ==
    [][ (\/ cbEffectPending
         \/ history' # history
         \/ navCalls' # navCalls
         \/ docsVars' # docsVars
         \/ timers' # timers
         \/ lastScroll' # lastScroll)
            => UNCHANGED authVars ]_vars

\* Reached: the resolver has redirected to /docs, the provider has since
\* replaced the token by an error, and the sidebar has been used; the
\* session is what the provider wrote last.
C21_Witness ==
    /\ navCalls = << ToDocs >> /\ location = "/docs"
    /\ opLog # << >> /\ lastScroll # Null
    /\ token = "" /\ error = "denied" /\ ~loginInProgress

\* C22: the navigator's state after a step is a function of its state
\* before and of the sidebar operation alone, in every session state: a
\* step of the provider leaves activeSection, expandedSections,
\* isMobileMenuOpen (and so the pane) as they are; a mount gives the initial
\* state; a selection makes the id active, closes the menu and flips the
\* expansion of api or architecture only; the menu operations set
\* isMobileMenuOpen and nothing else. Two runs with the same operations
\* therefore agree at every step, whatever their sessions are.
C22_NavigatorIgnoresSession ==
    [][ /\ authVars' # authVars
            => /\ UNCHANGED <<activeSection, expandedSections, isMobileMenuOpen>>
               /\ renderContent(activeSection') = renderContent(activeSection)
        /\ (location # "/docs" /\ location' = "/docs")
            => /\ activeSection' = "overview"
               /\ expandedSections' = {"api", "architecture"}
               /\ isMobileMenuOpen' = FALSE
        /\ (opLog' # opLog /\ opLog' # << >>)
            => LET e == Last(opLog')
               IN  /\ e.expanded = expandedSections
                   /\ e.op = "selectSection"
                        => /\ activeSection' = e.id
                           /\ isMobileMenuOpen' = FALSE
                           /\ expandedSections' =
                                IF e.id \in WithSubsections
                                THEN IF e.id \in expandedSections
                                     THEN expandedSections \ {e.id}
                                     ELSE expandedSections \cup {e.id}
                                ELSE expandedSections
                   /\ e.op = "openMenu"
                        => /\ isMobileMenuOpen' = TRUE
                           /\ UNCHANGED <<activeSection, expandedSections>>
                   /\ e.op \in {"closeMenu", "tapOverlay"}
                        => /\ isMobileMenuOpen' = FALSE
                           /\ UNCHANGED <<activeSection, expandedSections>> ]_vars

\* Reached: a subsection selected on the docs page by a visitor whose
\* login failed, with the pane a visitor without a session gets.
C22_Witness ==
    /\ location = "/docs"
    /\ token = "" /\ error = "denied" /\ ~loginInProgress
    /\ opLog # << >> /\ IsSelect(Last(opLog), "redact")
    /\ activeSection = "redact"
    /\ renderContent(activeSection).pane = "ApiSection"

\* =============================================================== authConfig
\* The pathname of a URL (scheme://host[:port]/path), for the two literals
\* the configuration holds.
UrlPath(url) ==
    CASE url = "http://localhost:5173/callback" -> "/callback"
      [] url = "https://plenoai.com/callback"   -> "/callback"
      [] OTHER                                  -> Null

C25_ActiveSubsectionUnderExpandedParent ==
    /\ []((DocsMounted /\ activeSection \in SubsectionUniverse)
            => \A sec \in ParentsOf(activeSection) : sec.id \in expandedSections)
    /\ [][ /\ (DocsMounted /\ activeSection' \in SubsectionUniverse
                  /\ activeSection' # activeSection)
              => \A sec \in ParentsOf(activeSection') : sec.id \in expandedSections
           /\ \A id \in WithSubsections :
                 (DocsMounted /\ DocsMounted'
                     /\ id \in expandedSections /\ id \notin expandedSections')
                 => activeSection' = id ]_vars

\* Reached: presidio was active and scrolled to; the click that collapsed
\* architecture has made architecture the active section.
C25_Witness ==
    /\ DocsMounted /\ opLog # << >>
    /\ IsSelect(Last(opLog), "architecture")
    /\ "architecture" \notin expandedSections
    /\ activeSection = "architecture"
    /\ lastScroll = "presidio" /\ timers = << >>

\* =========================================== Callback Resolver, precedence
\* C26: the effect of a rendered resolver makes at most one navigate call,
\* and the resolver at most one in its life; with isLoading false and a
\* token present the call is to /docs, error or no error, and a call to /
\* is made only without a token.
C26_AuthenticationBeforeError ==
    /\ [](Len(navCalls) <= 1)
    /\ [][ (location = "/callback" /\ cbEffectPending)
            => /\ Len(navCalls') <= 1
               /\ (~loginInProgress /\ token # "" /\ error # Null)
                     => navCalls' = << ToDocs >> /\ location' = "/docs"
               /\ navCalls' = << ToHome >> => token = ""
               /\ navCalls' = << ToDocs >> => token # "" ]_vars

\* Reached: the session settled with both a token and an error and the
\* resolver went to /docs.
C26_Witness ==
    /\ navCalls = << ToDocs >> /\ location = "/docs"
    /\ token = "abc" /\ error = "denied" /\ ~loginInProgress
    /\ Last(cbDeps).isAuthenticated /\ Last(cbDeps).error = "denied"

\* ============================================================ deferred scroll
\* C27: a callback that scrolls an element into view scrolls to the anchor
\* of the section that is active when it fires.
C27_ScrollsOnlyToActiveSection ==
    [][ (Len(timers') < Len(timers) /\ lastScroll' # NoElement)
            => lastScroll' = activeSection ]_vars

\* C28: pending callbacks are only ever added at the end (a selection, a
\* mount) or taken from the front (the oldest fires); a step that changes
\* the history stack, the active section or the mounted page takes none
\* away; the one that fires acts for the id it was scheduled with, scrolling
\* to it or finding no element; and either no callback is pending again
\* and again, or callbacks fire again and again, so that each one reaches
\* the front and fires.
C28_EveryScheduledScrollFires ==
    /\ [][ \/ timers' = timers
           \/ /\ timers # << >> /\ timers' = Tail(timers)
              /\ lastScroll' \in {Head(timers), NoElement}
              /\ UNCHANGED <<history, activeSection>>
           \/ /\ \E id \in subsectionIds : timers' = Append(timers, id)
              /\ timers' = Append(timers, activeSection') ]_vars
    /\ \/ []<>(timers = << >>)
       \/ []<><<timers # << >> /\ timers' = Tail(timers)>>_vars

\* Reached: two callbacks for different subsections pending at once, after
\* the docs page has been left.
C28_Witness ==
    /\ ~DocsMounted
    /\ Len(timers) = 2 /\ timers[1] # timers[2]
    /\ lastScroll = NoElement

\* ========================================== Callback Resolver, re-evaluation
\* The session is settled: isLoading false and a token or an error present.
Settled == ~loginInProgress /\ (token # "" \/ error # Null)

\* C29: a rendered resolver whose effect is not scheduled has evaluated the
\* session as it is now and found nothing to navigate for, so under a
\* settled session its effect is always scheduled; and a resolver rendered
\* under a settled session leads to a redirect to /docs or to /.
C29_SettledLeadsToRedirect ==
    /\ []((location = "/callback" /\ ~cbEffectPending)
            => /\ Last(cbDeps) = DepsOf(useAuth(Context))
               /\ callbackEffect(Last(cbDeps)) = << >>
               /\ ~Settled)
    /\ (location = "/callback" /\ Settled)
          ~> (navCalls # << >> /\ location \in {"/docs", "/"})

\* Reached: the resolver mounted while loading, the provider then settled
\* with an error and the resolver went home.
C29_Witness ==
    /\ navCalls = << ToHome >> /\ location = "/"
    /\ Len(cbDeps) = 2 /\ cbDeps[1].isLoading
    /\ ~cbDeps[2].isLoading /\ cbDeps[2].error = "denied"
    /\ Settled

====
